---- MODULE Spec2Model ----
(***************************************************************************)
(* Model of src/main.py: the AutoClicker worker thread (the scan loop) and *)
(* the App control surface (start_clicker, stop_clicker, restart_clicker), *)
(* driven from two threads: the Tk main loop ("gui": the Start, Restart    *)
(* and Stop buttons) and the pynput GlobalHotKeys listener ("hotkey":      *)
(* Ctrl+F1 = start_clicker, Ctrl+F2 = stop_clicker).                       *)
(*                                                                         *)
(* The screen is the environment: every capture-and-match ends in a hit, a *)
(* miss or an exception.  Tk is modelled as the thread-aware build: a      *)
(* Variable.set() made from a worker thread is queued to the main loop and *)
(* the worker waits until the "gui" thread is back in the loop, that is,   *)
(* not inside a button command.  Displayed strings are modelled by the     *)
(* values they print: str(count) by count, the elapsed-time text by        *)
(* "0.0 s" or "elapsed".                                                   *)
(***************************************************************************)
EXTENDS Integers, Sequences, FiniteSets, TLC

\* Bounds of the model.
MaxCtor == 2       \* AutoClicker(...) constructions in one run of the program
MaxClicks == 2     \* clicks issued in one run of the program, all workers together
NTemplates == 2    \* how many entries of the TEMPLATES list are modelled

TemplateNames ==
    << "confirm_button", "yellow_confirm_button", "watch_button",
       "enter_button", "mobilize_button", "enter_episode" >>

TEMPLATES == SubSeq(TemplateNames, 1, NTemplates)

Names == {TEMPLATES[i] : i \in 1..NTemplates}

AUTOMENU_TEMPLATE == "automenu"

REWARD_TEMPLATE == "reward"

Threads == {"gui", "hotkey"}

Workers == 1..MaxCtor

Outcomes == {"hit", "miss", "fail"}

VARIABLES
    worker,        \* App.worker: 0 is None, k > 0 the k-th AutoClicker built
    nctor,         \* AutoClicker objects built so far
    st,            \* per AutoClicker: none | new | alive | dead | crashed
    stop_flag,     \* per AutoClicker: stop_flag.is_set()
    wpc,           \* per AutoClicker: where run() is
    idx,           \* per AutoClicker: position of "for t in self.templates"
    click_counts,  \* per AutoClicker: the click_counts dict
    tick,          \* per AutoClicker: captures and inputs of the tick in progress
    cbi,           \* per AutoClicker: count labels update_status has set so far
    count_vars,    \* App.count_vars, as displayed
    time_var,      \* App.time_var, as displayed
    thr,           \* per control thread: the handler it runs and where it is
    nclicks,       \* history: pyautogui.click calls per AutoClicker and template
    cbs,           \* history: completed on_update calls per AutoClicker
    screen,        \* one template: pyautogui.size(), << W, H >>
    zone,          \* one template: t["zone"], in hundredths
    image,         \* one template: shape << w, h >> of t["image"]
    region_abs,    \* one template: t["region_abs"], << x, y, w, h >>
    screenshot,    \* one template: shape << w, h >> of the captured image
    minmax,        \* one template: max_val (in hundredths) and max_loc of the match
    match,         \* one template: what match_template returned, << >> is None
    clicked,       \* one template: the arguments of pyautogui.click
    count,         \* one template: click_counts[t["name"]]
    step           \* one template: how far load, capture, match and click have come

vars == << worker, nctor, st, stop_flag, wpc, idx, click_counts, tick, cbi,
           count_vars, time_var, thr, nclicks, cbs,
           screen, zone, image, region_abs, screenshot, minmax, match, clicked,
           count, step >>

appVars == << worker, count_vars, time_var >>

workerVars == << st, stop_flag, wpc, idx, click_counts, tick, cbi, nclicks, cbs >>

\* The variables of the study of one template (see below): the threads of the
\* program leave them alone.
oneVars == << screen, zone, image, region_abs, screenshot, minmax, match, clicked,
             count, step >>

Zero == [n \in Names |-> 0]

Idle == [fn |-> "idle", pc |-> "idle"]

Ev(op, a) == [op |-> op, a |-> a]

RECURSIVE Sum(_, _)
Sum(f, n) == IF n = 0 THEN 0 ELSE f[TEMPLATES[n]] + Sum(f, n - 1)

RECURSIVE Issued(_)
Issued(k) == IF k = 0 THEN 0 ELSE Sum(nclicks[k], NTemplates) + Issued(k - 1)

AppInit ==
    /\ worker = 0
    /\ nctor = 0
    /\ st = [k \in Workers |-> "none"]
    /\ stop_flag = [k \in Workers |-> FALSE]
    /\ wpc = [k \in Workers |-> "top"]
    /\ idx = [k \in Workers |-> 0]
    /\ click_counts = [k \in Workers |-> Zero]
    /\ tick = [k \in Workers |-> << >>]
    /\ cbi = [k \in Workers |-> 0]
    /\ count_vars = Zero
    /\ time_var = "0.0 s"
    /\ thr = [t \in Threads |-> Idle]
    /\ nclicks = [k \in Workers |-> Zero]
    /\ cbs = [k \in Workers |-> 0]

\* No template is under study.
OneOff ==
    /\ screen = << >>
    /\ zone = << >>
    /\ image = << >>
    /\ region_abs = << >>
    /\ screenshot = << >>
    /\ minmax = << >>
    /\ match = << >>
    /\ clicked = << >>
    /\ count = 0
    /\ step = "off"

Init == AppInit /\ OneOff

----------------------------------------------------------------------------
\* Faulty variants of single steps.  None of them is part of Next: each one
\* is a step the program does not take, used to show that the property of
\* the same number tells the program from its faulty variant.

\* C1: the reward branch without its "continue": after press("enter") the tick
\* falls through into the normal templates.
Reward_FallThrough(k) ==
    /\ st[k] = "alive" /\ wpc[k] = "reward"
    /\ \E r \in {"hit", "miss", "fail"} :
         \/ /\ r \in {"hit", "miss"}
            /\ tick' = [tick EXCEPT ![k] =
                          IF r = "hit"
                          THEN @ \o << [op |-> "capture", a |-> "reward"],
                                       [op |-> "match", a |-> "reward"],
                                       [op |-> "press", a |-> "enter"] >>
                          ELSE Append(@, [op |-> "capture", a |-> "reward"])]
            /\ wpc' = [wpc EXCEPT ![k] = "scan"]
            /\ idx' = [idx EXCEPT ![k] = 1]
            /\ UNCHANGED << st, stop_flag, click_counts, cbi, nclicks, cbs >>
         \/ /\ r = "fail"
            /\ st' = [st EXCEPT ![k] = "crashed"]
            /\ wpc' = [wpc EXCEPT ![k] = "top"]
            /\ idx' = [idx EXCEPT ![k] = 0]
            /\ tick' = [tick EXCEPT ![k] = << >>]
            /\ UNCHANGED << stop_flag, click_counts, cbi, nclicks, cbs >>
    /\ UNCHANGED << worker, count_vars, time_var, nctor, thr >>
    /\ UNCHANGED oneVars

\* C4: the automenu branch looking at the stop flag after its sleep(2): a stop
\* set after ESC ends run() before ENTER.
AutomenuEnter_StopAware(k) ==
    /\ st[k] = "alive" /\ wpc[k] = "esc"
    /\ IF stop_flag[k]
       THEN /\ st' = [st EXCEPT ![k] = "dead"]
            /\ wpc' = [wpc EXCEPT ![k] = "top"]
            /\ tick' = [tick EXCEPT ![k] = << >>]
       ELSE /\ st' = st
            /\ wpc' = [wpc EXCEPT ![k] = "sleep"]
            /\ tick' = [tick EXCEPT ![k] = Append(@, [op |-> "press", a |-> "enter"])]
    /\ UNCHANGED << stop_flag, idx, click_counts, cbi, nclicks, cbs >>
    /\ UNCHANGED << worker, count_vars, time_var, nctor, thr >>
    /\ UNCHANGED oneVars

\* C5: stop_clicker testing only "self.worker", not is_alive(): a worker that
\* has ended is stopped and joined once more.
StopCheck_NoAliveTest(t) ==
    /\ thr[t].fn \in {"stop_clicker", "restart_clicker"} /\ thr[t].pc = "call"
    /\ thr' = [thr EXCEPT ![t] =
                 IF worker # 0 THEN [fn |-> thr[t].fn, pc |-> "stop"]
                 ELSE IF thr[t].fn = "restart_clicker"
                      THEN [fn |-> thr[t].fn, pc |-> "reset"]
                      ELSE [fn |-> "idle", pc |-> "idle"]]
    /\ UNCHANGED << worker, count_vars, time_var, nctor, st, stop_flag, wpc, idx,
                    click_counts, tick, cbi, nclicks, cbs >>
    /\ UNCHANGED oneVars

\* C7: restart_clicker resetting the counters but not the elapsed time.
RestartReset_KeepTime(t) ==
    /\ thr[t] = [fn |-> "restart_clicker", pc |-> "reset"]
    /\ count_vars' = [n \in DOMAIN count_vars |-> 0]
    /\ thr' = [thr EXCEPT ![t].pc = "print"]
    /\ UNCHANGED << time_var, worker, nctor, st, stop_flag, wpc, idx, click_counts,
                    tick, cbi, nclicks, cbs >>
    /\ UNCHANGED oneVars

\* C9: start_clicker assigning self.worker before the images are loaded: a
\* failed load leaves the unstarted object in self.worker.
StartCtor_AssignFirst(t) ==
    /\ thr[t] = [fn |-> "start_clicker", pc |-> "ctor"]
    /\ nctor' = nctor + 1
    /\ st' = [st EXCEPT ![nctor + 1] = "new"]
    /\ worker' = nctor + 1
    /\ \E loaded \in BOOLEAN :
         thr' = [thr EXCEPT ![t].pc = IF loaded THEN "start" ELSE "exc_load"]
    /\ UNCHANGED << count_vars, time_var, stop_flag, wpc, idx, click_counts, tick,
                    cbi, nclicks, cbs >>
    /\ UNCHANGED oneVars

\* C10: the scan clicking without counting the click.
Scan_NoCount(k) ==
    /\ st[k] = "alive" /\ wpc[k] = "scan"
    /\ LET t == TEMPLATES[idx[k]] IN
       \E r \in {"hit", "miss", "fail"} :
         \/ /\ r = "hit"
            /\ Issued(MaxCtor) < MaxClicks
            /\ tick' = [tick EXCEPT ![k] = @ \o << [op |-> "capture", a |-> t],
                                                   [op |-> "match", a |-> t],
                                                   [op |-> "click", a |-> t] >>]
            /\ nclicks' = [nclicks EXCEPT ![k][t] = @ + 1]
            /\ wpc' = [wpc EXCEPT ![k] = "cb"]
            /\ UNCHANGED << st, stop_flag, idx, click_counts, cbi, cbs >>
         \/ /\ r = "miss"
            /\ tick' = [tick EXCEPT ![k] = Append(@, [op |-> "capture", a |-> t])]
            /\ IF idx[k] < NTemplates
               THEN /\ wpc' = [wpc EXCEPT ![k] = "scan"]
                    /\ idx' = [idx EXCEPT ![k] = @ + 1]
               ELSE /\ wpc' = [wpc EXCEPT ![k] = "sleep"]
                    /\ idx' = [idx EXCEPT ![k] = 0]
            /\ UNCHANGED << st, stop_flag, click_counts, cbi, nclicks, cbs >>
         \/ /\ r = "fail"
            /\ st' = [st EXCEPT ![k] = "crashed"]
            /\ wpc' = [wpc EXCEPT ![k] = "top"]
            /\ idx' = [idx EXCEPT ![k] = 0]
            /\ tick' = [tick EXCEPT ![k] = << >>]
            /\ UNCHANGED << stop_flag, click_counts, cbi, nclicks, cbs >>
    /\ UNCHANGED << worker, count_vars, time_var, nctor, thr >>
    /\ UNCHANGED oneVars

\* C15: the automenu branch going on to the reward after its ESC, in the
\* same tick.
Automenu_HitThenReward(k) ==
    /\ st[k] = "alive" /\ wpc[k] = "automenu"
    /\ \E r \in {"hit", "miss", "fail"} :
         \/ /\ r \in {"hit", "miss"}
            /\ tick' = [tick EXCEPT ![k] =
                          IF r = "hit"
                          THEN @ \o << [op |-> "capture", a |-> "automenu"],
                                       [op |-> "match", a |-> "automenu"],
                                       [op |-> "press", a |-> "esc"] >>
                          ELSE Append(@, [op |-> "capture", a |-> "automenu"])]
            /\ wpc' = [wpc EXCEPT ![k] = "reward"]
            /\ UNCHANGED << st, stop_flag, idx, click_counts, cbi, nclicks, cbs >>
         \/ /\ r = "fail"
            /\ st' = [st EXCEPT ![k] = "crashed"]
            /\ wpc' = [wpc EXCEPT ![k] = "top"]
            /\ idx' = [idx EXCEPT ![k] = 0]
            /\ tick' = [tick EXCEPT ![k] = << >>]
            /\ UNCHANGED << stop_flag, click_counts, cbi, nclicks, cbs >>
    /\ UNCHANGED << worker, count_vars, time_var, nctor, thr >>
    /\ UNCHANGED oneVars

\* C16: the for loop left after its first template.
NextTemplate_StopAfterFirst(k) ==
    /\ wpc' = [wpc EXCEPT ![k] = "sleep"]
    /\ idx' = [idx EXCEPT ![k] = 0]

\* C19: the automenu branch without its sleep(self.delay): after ENTER the
\* loop test follows at once.
AutomenuEnter_NoDelay(k) ==
    /\ st[k] = "alive" /\ wpc[k] = "esc"
    /\ tick' = [tick EXCEPT ![k] = << >>]
    /\ wpc' = [wpc EXCEPT ![k] = "top"]
    /\ UNCHANGED << st, stop_flag, idx, click_counts, cbi, nclicks, cbs >>
    /\ UNCHANGED << worker, count_vars, time_var, nctor, thr >>
    /\ UNCHANGED oneVars

----------------------------------------------------------------------------
\* AutoClicker.run

is_alive(k) == st[k] = "alive"

At(k, pc) == is_alive(k) /\ wpc[k] = pc

\* run() is left: the thread ends and its frame (position, loop variable, the
\* tick under way) goes.
Exit(k, how) ==
    /\ st' = [st EXCEPT ![k] = how]
    /\ wpc' = [wpc EXCEPT ![k] = "top"]
    /\ idx' = [idx EXCEPT ![k] = 0]
    /\ tick' = [tick EXCEPT ![k] = << >>]
    /\ UNCHANGED << stop_flag, click_counts, cbi, nclicks, cbs >>

\* screenshot_region or match_template raises: nothing in run() catches it.
Raise(k) == Exit(k, "crashed")

\* while not self.stop_flag.is_set()
LoopTest(k) ==
    /\ At(k, "top")
    /\ IF stop_flag[k]
       THEN Exit(k, "dead")
       ELSE /\ wpc' = [wpc EXCEPT ![k] = "automenu"]
            /\ UNCHANGED << st, stop_flag, idx, click_counts, tick, cbi, nclicks, cbs >>
    /\ UNCHANGED << appVars, nctor, thr >>
    /\ UNCHANGED oneVars

\* screenshot_region and match_template of the automenu; on a match
\* press("esc") and sleep(2).
Automenu(k) ==
    /\ At(k, "automenu")
    /\ \E r \in Outcomes :
         \/ /\ r = "hit"
            /\ tick' = [tick EXCEPT ![k] = @ \o << Ev("capture", AUTOMENU_TEMPLATE),
                                                   Ev("match", AUTOMENU_TEMPLATE),
                                                   Ev("press", "esc") >>]
            /\ wpc' = [wpc EXCEPT ![k] = "esc"]
            /\ UNCHANGED << st, stop_flag, idx, click_counts, cbi, nclicks, cbs >>
         \/ /\ r = "miss"
            /\ tick' = [tick EXCEPT ![k] = Append(@, Ev("capture", AUTOMENU_TEMPLATE))]
            /\ wpc' = [wpc EXCEPT ![k] = "reward"]
            /\ UNCHANGED << st, stop_flag, idx, click_counts, cbi, nclicks, cbs >>
         \/ /\ r = "fail"
            /\ Raise(k)
    /\ UNCHANGED << appVars, nctor, thr >>
    /\ UNCHANGED oneVars

\* The automenu branch after sleep(2): press("enter"), then sleep(self.delay)
\* and continue.
AutomenuEnter(k) ==
    /\ At(k, "esc")
    /\ tick' = [tick EXCEPT ![k] = Append(@, Ev("press", "enter"))]
    /\ wpc' = [wpc EXCEPT ![k] = "sleep"]
    /\ UNCHANGED << st, stop_flag, idx, click_counts, cbi, nclicks, cbs >>
    /\ UNCHANGED << appVars, nctor, thr >>
    /\ UNCHANGED oneVars

\* screenshot_region and match_template of the reward; on a match
\* press("enter"), then sleep(self.delay) and continue.
Reward(k) ==
    /\ At(k, "reward")
    /\ \E r \in Outcomes :
         \/ /\ r = "hit"
            /\ tick' = [tick EXCEPT ![k] = @ \o << Ev("capture", REWARD_TEMPLATE),
                                                   Ev("match", REWARD_TEMPLATE),
                                                   Ev("press", "enter") >>]
            /\ wpc' = [wpc EXCEPT ![k] = "sleep"]
            /\ UNCHANGED << st, stop_flag, idx, click_counts, cbi, nclicks, cbs >>
         \/ /\ r = "miss"
            /\ tick' = [tick EXCEPT ![k] = Append(@, Ev("capture", REWARD_TEMPLATE))]
            /\ wpc' = [wpc EXCEPT ![k] = "scan"]
            /\ idx' = [idx EXCEPT ![k] = 1]
            /\ UNCHANGED << st, stop_flag, click_counts, cbi, nclicks, cbs >>
         \/ /\ r = "fail"
            /\ Raise(k)
    /\ UNCHANGED << appVars, nctor, thr >>
    /\ UNCHANGED oneVars

\* "for t in self.templates" moves to its next template, or ends and run()
\* reaches the sleep(self.delay) that closes the tick.
NextTemplate(k) ==
    IF idx[k] < NTemplates
    THEN /\ wpc' = [wpc EXCEPT ![k] = "scan"]
         /\ idx' = [idx EXCEPT ![k] = @ + 1]
    ELSE /\ wpc' = [wpc EXCEPT ![k] = "sleep"]
         /\ idx' = [idx EXCEPT ![k] = 0]

\* One pass of "for t in self.templates": capture and match t; on a match
\* click, count, and go on to the on_update call.
Scan(k) ==
    /\ At(k, "scan")
    /\ LET t == TEMPLATES[idx[k]] IN
       \E r \in Outcomes :
         \/ /\ r = "hit"
            /\ Issued(MaxCtor) < MaxClicks
            /\ tick' = [tick EXCEPT ![k] = @ \o << Ev("capture", t), Ev("match", t),
                                                   Ev("click", t) >>]
            /\ click_counts' = [click_counts EXCEPT ![k][t] = @ + 1]
            /\ nclicks' = [nclicks EXCEPT ![k][t] = @ + 1]
            /\ wpc' = [wpc EXCEPT ![k] = "cb"]
            /\ UNCHANGED << st, stop_flag, idx, cbi, cbs >>
         \/ /\ r = "miss"
            /\ tick' = [tick EXCEPT ![k] = Append(@, Ev("capture", t))]
            /\ NextTemplate(k)
            /\ UNCHANGED << st, stop_flag, click_counts, cbi, nclicks, cbs >>
         \/ /\ r = "fail"
            /\ Raise(k)
    /\ UNCHANGED << appVars, nctor, thr >>
    /\ UNCHANGED oneVars

\* App.update_status(counts, elapsed), called by run() after a click with the
\* click_counts dict itself: one Variable.set per count label, in the order of
\* the dict, then the set of the elapsed time.  Each set is run by the Tk main
\* loop: it waits while the gui thread is inside a command.
update_status(k) ==
    /\ At(k, "cb")
    /\ thr["gui"] = Idle
    /\ IF cbi[k] < NTemplates
       THEN /\ LET n == TEMPLATES[cbi[k] + 1] IN
                 count_vars' = [count_vars EXCEPT ![n] = click_counts[k][n]]
            /\ cbi' = [cbi EXCEPT ![k] = @ + 1]
            /\ UNCHANGED << time_var, cbs, wpc, idx >>
       ELSE /\ time_var' = "elapsed"
            /\ cbi' = [cbi EXCEPT ![k] = 0]
            /\ cbs' = [cbs EXCEPT ![k] = @ + 1]
            /\ NextTemplate(k)
            /\ UNCHANGED count_vars
    /\ UNCHANGED << worker, nctor, thr, st, stop_flag, click_counts, tick, nclicks >>
    /\ UNCHANGED oneVars

\* time.sleep(self.delay) ends: the tick is over.
Sleep(k) ==
    /\ At(k, "sleep")
    /\ wpc' = [wpc EXCEPT ![k] = "top"]
    /\ tick' = [tick EXCEPT ![k] = << >>]
    /\ UNCHANGED << st, stop_flag, idx, click_counts, cbi, nclicks, cbs >>
    /\ UNCHANGED << appVars, nctor, thr >>
    /\ UNCHANGED oneVars

----------------------------------------------------------------------------
\* App: start_clicker, stop_clicker, restart_clicker

In(t, fn, pc) == thr[t].fn = fn /\ thr[t].pc = pc

Goto(t, pc) == thr' = [thr EXCEPT ![t].pc = pc]

Return(t) == thr' = [thr EXCEPT ![t] = Idle]

\* self.worker and self.worker.is_alive()
WorkerAlive == worker # 0 /\ is_alive(worker)

InStart(t) == thr[t].fn = "start_clicker"

InStop(t) == thr[t].fn \in {"stop_clicker", "restart_clicker"}

\* Constructions still to come from the start_clicker calls under way.
Pending ==
    Cardinality({t \in Threads : InStart(t) /\ thr[t].pc \in {"call", "delay", "ctor"}})

\* The Start button or Ctrl+F1.
StartCall(t) ==
    /\ thr[t] = Idle
    /\ nctor + Pending < MaxCtor
    /\ thr' = [thr EXCEPT ![t] = [fn |-> "start_clicker", pc |-> "call"]]
    /\ UNCHANGED << appVars, nctor, workerVars >>
    /\ UNCHANGED oneVars

\* if self.worker and self.worker.is_alive(): return
StartCheck(t) ==
    /\ In(t, "start_clicker", "call")
    /\ IF WorkerAlive THEN Return(t) ELSE Goto(t, "delay")
    /\ UNCHANGED << appVars, nctor, workerVars >>
    /\ UNCHANGED oneVars

\* self.delay_var.get(), the argument of the constructor: a Tk call, which
\* from the listener thread waits until the gui thread is back in the loop.
StartDelay(t) ==
    /\ In(t, "start_clicker", "delay")
    /\ t # "gui" => thr["gui"] = Idle
    /\ Goto(t, "ctor")
    /\ UNCHANGED << appVars, nctor, workerVars >>
    /\ UNCHANGED oneVars

\* self.worker = AutoClicker(TEMPLATES, ...): __init__ loads every reference
\* image; load_template raises FileNotFoundError for one that cannot be read,
\* and then nothing is assigned and the object is dropped.
StartCtor(t) ==
    /\ In(t, "start_clicker", "ctor")
    /\ \E loaded \in BOOLEAN :
         IF loaded
         THEN /\ nctor' = nctor + 1
              /\ st' = [st EXCEPT ![nctor + 1] = "new"]
              /\ worker' = nctor + 1
              /\ Goto(t, "start")
         ELSE /\ UNCHANGED << nctor, st, worker >>
              /\ Goto(t, "exc_load")
    /\ UNCHANGED << count_vars, time_var, stop_flag, wpc, idx, click_counts, tick,
                    cbi, nclicks, cbs >>
    /\ UNCHANGED oneVars

\* self.worker.start(), the sound and the print.  Thread.start raises
\* RuntimeError on a thread that was started before.
StartThread(t) ==
    /\ In(t, "start_clicker", "start")
    /\ IF st[worker] = "new"
       THEN /\ st' = [st EXCEPT ![worker] = "alive"]
            /\ Return(t)
       ELSE /\ st' = st
            /\ Goto(t, "exc_start")
    /\ UNCHANGED << appVars, nctor, stop_flag, wpc, idx, click_counts, tick,
                    cbi, nclicks, cbs >>
    /\ UNCHANGED oneVars

\* An exception leaves the handler.  Tk reports it and its loop goes on; the
\* listener thread is taken to go on as well, which allows every call the
\* program can get and more.
Unwind(t) ==
    /\ thr[t].pc \in {"exc_load", "exc_start", "exc_join"}
    /\ Return(t)
    /\ UNCHANGED << appVars, nctor, workerVars >>
    /\ UNCHANGED oneVars

\* The Stop button or Ctrl+F2.
StopCall(t) ==
    /\ thr[t] = Idle
    /\ thr' = [thr EXCEPT ![t] = [fn |-> "stop_clicker", pc |-> "call"]]
    /\ UNCHANGED << appVars, nctor, workerVars >>
    /\ UNCHANGED oneVars

\* The Restart button: restart_clicker begins with self.stop_clicker().
RestartCall(t) ==
    /\ t = "gui"
    /\ thr[t] = Idle
    /\ thr' = [thr EXCEPT ![t] = [fn |-> "restart_clicker", pc |-> "call"]]
    /\ UNCHANGED << appVars, nctor, workerVars >>
    /\ UNCHANGED oneVars

\* stop_clicker returns: to the main loop or the listener, or into
\* restart_clicker.
StopReturn(t) ==
    IF thr[t].fn = "restart_clicker" THEN Goto(t, "reset") ELSE Return(t)

\* if self.worker and self.worker.is_alive():
StopCheck(t) ==
    /\ InStop(t) /\ thr[t].pc = "call"
    /\ IF WorkerAlive THEN Goto(t, "stop") ELSE StopReturn(t)
    /\ UNCHANGED << appVars, nctor, workerVars >>
    /\ UNCHANGED oneVars

\* self.worker.stop()
StopSet(t) ==
    /\ InStop(t) /\ thr[t].pc = "stop"
    /\ stop_flag' = [stop_flag EXCEPT ![worker] = TRUE]
    /\ Goto(t, "join")
    /\ UNCHANGED << appVars, nctor, st, wpc, idx, click_counts, tick, cbi, nclicks, cbs >>
    /\ UNCHANGED oneVars

\* self.worker.join() and the print: join waits for the thread to end, and
\* raises RuntimeError on a thread that was never started.
StopJoin(t) ==
    /\ InStop(t) /\ thr[t].pc = "join"
    /\ ~is_alive(worker)
    /\ IF st[worker] = "new" THEN Goto(t, "exc_join") ELSE StopReturn(t)
    /\ UNCHANGED << appVars, nctor, workerVars >>
    /\ UNCHANGED oneVars

\* for var in self.count_vars.values(): var.set("0"); self.time_var.set("0.0 s")
RestartReset(t) ==
    /\ In(t, "restart_clicker", "reset")
    /\ count_vars' = Zero
    /\ time_var' = "0.0 s"
    /\ Goto(t, "print")
    /\ UNCHANGED << worker, nctor, workerVars >>
    /\ UNCHANGED oneVars

\* print("> Restart button pressed") and return
RestartReturn(t) ==
    /\ In(t, "restart_clicker", "print")
    /\ Return(t)
    /\ UNCHANGED << appVars, nctor, workerVars >>
    /\ UNCHANGED oneVars

----------------------------------------------------------------------------

Next ==
    \/ \E k \in Workers :
         \/ LoopTest(k)
         \/ Automenu(k)
         \/ AutomenuEnter(k)
         \/ Reward(k)
         \/ Scan(k)
         \/ update_status(k)
         \/ Sleep(k)
    \/ \E t \in Threads :
         \/ StartCall(t)
         \/ StartCheck(t)
         \/ StartDelay(t)
         \/ StartCtor(t)
         \/ StartThread(t)
         \/ Unwind(t)
         \/ StopCall(t)
         \/ RestartCall(t)
         \/ StopCheck(t)
         \/ StopSet(t)
         \/ StopJoin(t)
         \/ RestartReset(t)
         \/ RestartReturn(t)

Spec == Init /\ [][Next]_vars

\* A step of the thread of AutoClicker k.
run(k) ==
    \/ LoopTest(k)
    \/ Automenu(k)
    \/ AutomenuEnter(k)
    \/ Reward(k)
    \/ Scan(k)
    \/ update_status(k)
    \/ Sleep(k)

\* A step of thread t inside a handler it has entered.
Handler(t) ==
    \/ StartCheck(t)
    \/ StartDelay(t)
    \/ StartCtor(t)
    \/ StartThread(t)
    \/ Unwind(t)
    \/ StopCheck(t)
    \/ StopSet(t)
    \/ StopJoin(t)
    \/ RestartReset(t)
    \/ RestartReturn(t)

\* Every thread that can go on does go on: the worker threads in run(), the
\* two control threads inside a handler.  When a button or a hotkey is pressed
\* is up to the user.
FairSpec ==
    /\ Spec
    /\ \A k \in Workers : WF_vars(run(k))
    /\ \A t \in Threads : WF_vars(Handler(t))

----------------------------------------------------------------------------
\* One normal template, from the load of its region to the end of one tick:
\* region_from_percent (as called by AutoClicker.__init__), then in run()
\* screenshot_region, match_template, the click and the count.  Sizes are in
\* pixels, zone fractions and scores in hundredths.

\* "threshold": 0.85
Threshold == 85

\* pyautogui.size()
Screens == { << 3, 3 >>, << 100, 100 >>, << 1920, 1080 >>, << 2000, 2000 >> }

\* Zones of TEMPLATES, further zones with 0 <= x1 < x2 <= 1 and 0 <= y1 < y2 <= 1,
\* and zones without.
Zones ==
    { << 77, 84, 99, 99 >>, << 35, 82, 62, 99 >>,
      << 10, 10, 60, 60 >>, << 0, 0, 100, 100 >>, << 28, 10, 29, 20 >>,
      << 50, 50, 40, 40 >>, << 30, 30, 30, 60 >>, << 50, 50, 120, 100 >> }

\* Width and height of the reference image.
Shapes == { << 50, 50 >>, << 50, 200 >> }

\* max_val as cv2.minMaxLoc can give it: below, at and above the threshold.
Scores == { 84, 85, 100 }

\* max_loc as cv2.minMaxLoc can give it in a result of rw by rh scores.
Locs(rw, rh) ==
    { << 0, 0 >>, << rw - 1, rh - 1 >> }
        \cup (IF rw > 100 /\ rh > 100 THEN { << 100, 100 >> } ELSE {})

ValidZone(z) ==
    /\ 0 <= z[1] /\ z[1] < z[3] /\ z[3] <= 100
    /\ 0 <= z[2] /\ z[2] < z[4] /\ z[4] <= 100

\* int(size * fraction), the fraction being n / 100 as a binary double.  int
\* truncates.  A product that is a whole number in exact arithmetic can come
\* out just below it in doubles (int(100 * 0.29) is 28), unless the fraction
\* is itself a double.
Trunc(size, n) ==
    LET q == (size * n) \div 100 IN
    IF (size * n) % 100 = 0 /\ n \notin {0, 25, 50, 75, 100}
    THEN {q - 1, q}
    ELSE {q}

TemplateInit ==
    /\ AppInit
    /\ screen \in Screens
    /\ zone \in Zones
    /\ image \in Shapes
    /\ region_abs = << >>
    /\ screenshot = << >>
    /\ minmax = << >>
    /\ match = << >>
    /\ clicked = << >>
    /\ count = 0
    /\ step = "load"

\* t["region_abs"] = region_from_percent(t["zone"]): no test of the zone, and
\* nothing raises.
region_from_percent ==
    /\ step = "load"
    /\ \E x1 \in Trunc(screen[1], zone[1]), y1 \in Trunc(screen[2], zone[2]),
          x2 \in Trunc(screen[1], zone[3]), y2 \in Trunc(screen[2], zone[4]) :
         region_abs' = << x1, y1, x2 - x1, y2 - y1 >>
    /\ step' = "capture"
    /\ UNCHANGED << screen, zone, image, screenshot, minmax, match, clicked, count >>
    /\ UNCHANGED << appVars, nctor, thr, workerVars >>

\* The region lies on the screen.
OnScreen(r) ==
    /\ r[1] >= 0 /\ r[1] + r[3] <= screen[1]
    /\ r[2] >= 0 /\ r[2] + r[4] <= screen[2]

\* screenshot_region(region): sct.grab and the colour conversion.  With a
\* width or height that is not positive no image comes back: the grab or the
\* conversion of the empty array raises.  A region that leaves the screen is
\* refused by some capture backends and padded by others.
screenshot_region ==
    /\ step = "capture"
    /\ LET w == region_abs[3]
           h == region_abs[4] IN
       \/ /\ w > 0 /\ h > 0
          /\ screenshot' = << w, h >>
          /\ step' = "match"
       \/ /\ w <= 0 \/ h <= 0 \/ ~OnScreen(region_abs)
          /\ screenshot' = << >>
          /\ step' = "raised_capture"
    /\ UNCHANGED << screen, zone, image, region_abs, minmax, match, clicked, count >>
    /\ UNCHANGED << appVars, nctor, thr, workerVars >>

\* |a - b|
Dist(a, b) == IF a < b THEN b - a ELSE a - b

\* cv2.matchTemplate refuses (cv2.error) an image that is smaller than the
\* template in one dimension and larger in the other; an image that is not
\* larger in either dimension it takes, searching the image in the template.
Refused(iw, ih, tw, th) ==
    /\ ih < th \/ iw < tw
    /\ ~(ih <= th /\ iw <= tw)

\* A faulty variant: the top-left corner of the best match returned, not its
\* centre.
match_template_TopLeft ==
    /\ step = "match"
    /\ LET iw == screenshot[1]
           ih == screenshot[2]
           tw == image[1]
           th == image[2] IN
       IF Refused(iw, ih, tw, th)
       THEN /\ step' = "raised_match"
            /\ UNCHANGED << minmax, match >>
       ELSE \E val \in Scores : \E loc \in Locs(Dist(iw, tw) + 1, Dist(ih, th) + 1) :
              /\ minmax' = [val |-> val, loc |-> loc]
              /\ IF val >= Threshold
                 THEN /\ match' = loc
                      /\ step' = "click"
                 ELSE /\ match' = << >>
                      /\ step' = "sleep"
    /\ UNCHANGED << screen, zone, image, region_abs, screenshot, clicked, count >>
    /\ UNCHANGED << worker, count_vars, time_var, nctor, thr, st, stop_flag, wpc, idx,
                    click_counts, tick, cbi, nclicks, cbs >>

\* match_template(screenshot, t["image"], t["threshold"]): the best score and
\* its place are the environment's; at or above the threshold the centre of
\* the template laid at that place is returned, else None.
match_template ==
    /\ step = "match"
    /\ LET iw == screenshot[1]
           ih == screenshot[2]
           tw == image[1]
           th == image[2] IN
       IF Refused(iw, ih, tw, th)
       THEN /\ step' = "raised_match"
            /\ UNCHANGED << minmax, match >>
       ELSE \E val \in Scores : \E loc \in Locs(Dist(iw, tw) + 1, Dist(ih, th) + 1) :
              /\ minmax' = [val |-> val, loc |-> loc]
              /\ IF val >= Threshold
                 THEN /\ match' = << loc[1] + tw \div 2, loc[2] + th \div 2 >>
                      /\ step' = "click"
                 ELSE /\ match' = << >>
                      /\ step' = "sleep"
    /\ UNCHANGED << screen, zone, image, region_abs, screenshot, clicked, count >>
    /\ UNCHANGED << appVars, nctor, thr, workerVars >>

\* pyautogui.click(region[0] + match[0], region[1] + match[1]) and
\* click_counts[t["name"]] += 1; with one template the closing sleep follows.
Click ==
    /\ step = "click"
    /\ clicked' = << region_abs[1] + match[1], region_abs[2] + match[2] >>
    /\ count' = count + 1
    /\ step' = "sleep"
    /\ UNCHANGED << screen, zone, image, region_abs, screenshot, minmax, match >>
    /\ UNCHANGED << appVars, nctor, thr, workerVars >>

TemplateNext ==
    \/ region_from_percent
    \/ screenshot_region
    \/ match_template
    \/ Click

TemplateSpec == TemplateInit /\ [][TemplateNext]_vars

----------------------------------------------------------------------------
\* Properties

Interrupts == {AUTOMENU_TEMPLATE, REWARD_TEMPLATE}

\* The tick of worker k has matched the interrupt template a.
Matched(k, a) ==
    \E i \in 1..Len(tick[k]) : tick[k][i] = Ev("match", a)

\* The tick of worker k has touched a normal template: captured it, matched it
\* or clicked on it.
TouchedNormal(k) ==
    \E i \in 1..Len(tick[k]) : tick[k][i].a \in Names

\* What a tick with an interrupt hit has done when it reaches its closing
\* sleep(self.delay).
AutomenuTick ==
    << Ev("capture", AUTOMENU_TEMPLATE), Ev("match", AUTOMENU_TEMPLATE),
       Ev("press", "esc"), Ev("press", "enter") >>

RewardTick ==
    << Ev("capture", AUTOMENU_TEMPLATE), Ev("capture", REWARD_TEMPLATE),
       Ev("match", REWARD_TEMPLATE), Ev("press", "enter") >>

\* C1: in a tick of run() in which the automenu or the reward matched, the key
\* sequence of that template is performed (ESC then ENTER for the automenu,
\* ENTER for the reward: complete when the tick reaches its closing sleep), no
\* normal template is captured, no click is issued and click_counts does not
\* change while the tick lasts.
C1_InterruptTick ==
    [][\A k \in Workers : \A a \in Interrupts :
         Matched(k, a)' =>
           /\ ~TouchedNormal(k)'
           /\ wpc'[k] \in {"esc", "sleep"}
           /\ wpc'[k] = "esc" =>
                /\ a = AUTOMENU_TEMPLATE
                /\ tick'[k] = SubSeq(AutomenuTick, 1, 3)
           /\ wpc'[k] = "sleep" =>
                tick'[k] = IF a = AUTOMENU_TEMPLATE THEN AutomenuTick ELSE RewardTick
           /\ click_counts'[k] = click_counts[k]
           /\ nclicks'[k] = nclicks[k]]_vars

\* C1, a case: a tick in which the reward matched is at its closing sleep.
C1_RewardTickDone ==
    \E k \in Workers : At(k, "sleep") /\ Matched(k, REWARD_TEMPLATE)

\* C2: at most one scan-loop worker is alive in every reachable state, for
\* every interleaving of start, stop and restart from the gui thread and the
\* hotkey thread.
C2_AtMostOneWorker ==
    Cardinality({k \in Workers : is_alive(k)}) <= 1

\* C3: when stop_clicker returns (to its caller, or into restart_clicker) and
\* no start_clicker call is under way, no worker is alive; no worker being
\* alive, no click and no key press follows until a start.
C3_StopLeavesNoWorker ==
    [][\A t \in Threads :
         ( /\ InStop(t)
           /\ thr[t].pc \in {"call", "join"}
           /\ thr'[t].pc \in {"idle", "reset"}
           /\ \A u \in Threads : ~InStart(u) )
         => \A k \in Workers : ~is_alive(k)']_vars

\* C4: stop is observed only at tick boundaries.  With the stop flag of a
\* live worker set: run() returns only from the loop test; no further tick
\* is started; an automenu tick that pressed ESC goes on to press ENTER and
\* to the closing sleep; the scan of the normal templates goes on to the
\* next template while one is left, and reaches the closing sleep only
\* after the last one.
C4_StopAtTickBoundary ==
    [][\A k \in Workers :
         (is_alive(k) /\ stop_flag[k]) =>
           /\ st'[k] = "dead" => wpc[k] = "top"
           /\ wpc[k] = "top" => ~is_alive(k)' \/ (wpc'[k] = "top" /\ tick'[k] = << >>)
           /\ (wpc[k] = "esc" /\ is_alive(k)' /\ wpc'[k] # "esc") =>
                /\ wpc'[k] = "sleep"
                /\ tick'[k] = Append(tick[k], Ev("press", "enter"))
           /\ (wpc[k] \in {"scan", "cb"} /\ is_alive(k)' /\ idx[k] < NTemplates) =>
                /\ wpc'[k] \in {"scan", "cb"}
                /\ idx'[k] \in {idx[k], idx[k] + 1}
           /\ (wpc[k] \in {"scan", "cb"} /\ wpc'[k] = "sleep") => idx[k] = NTemplates
           /\ (wpc[k] = "sleep" /\ is_alive(k)') => wpc'[k] \in {"sleep", "top"}]_vars

\* C4, a case: the stop flag is set while an automenu tick is between its ESC
\* and its ENTER.
C4_StopBetweenEscAndEnter ==
    \E k \in Workers : At(k, "esc") /\ stop_flag[k]

\* C5: stop_clicker called when no worker is running (none was started, or
\* the last one has ended) returns at once: it changes nothing but the
\* caller's position, sets no stop flag, joins nothing and raises nothing.
C5_StopWithoutWorker ==
    [][\A t \in Threads :
         (InStop(t) /\ thr[t].pc = "call" /\ ~WorkerAlive /\ thr'[t] # thr[t]) =>
           /\ thr'[t] = IF thr[t].fn = "restart_clicker"
                        THEN [fn |-> "restart_clicker", pc |-> "reset"]
                        ELSE Idle
           /\ UNCHANGED << appVars, nctor, workerVars >>]_vars

\* C5, a case: stop_clicker is called again on a worker that a stop has
\* already ended.
C5_StopCalledAfterStop ==
    \E t \in Threads :
        /\ In(t, "stop_clicker", "call")
        /\ worker # 0
        /\ st[worker] = "dead"
        /\ stop_flag[worker]

\* C6: when restart_clicker returns, a new scan session is running and its
\* counters are all zero.
C6_RestartStartsSession ==
    \A t \in Threads :
        In(t, "restart_clicker", "print") =>
            WorkerAlive /\ click_counts[worker] = Zero

\* C7: when restart_clicker returns, every displayed counter is zero and the
\* displayed elapsed time is the reset one.
C7_RestartResetsDisplay ==
    \A t \in Threads :
        In(t, "restart_clicker", "print") =>
            count_vars = Zero /\ time_var = "0.0 s"

\* C7, a case: restart_clicker is about to return after a session that
\* clicked and reported its counters.
C7_RestartAfterClicks ==
    \E t \in Threads :
        /\ In(t, "restart_clicker", "print")
        /\ worker # 0
        /\ cbs[worker] > 0
        /\ click_counts[worker] # Zero

\* C8: a capture or match failure does not end the scan loop: a worker that
\* has ended was asked to stop.
C8_OnlyStopEndsWorker ==
    \A k \in Workers : st[k] \in {"dead", "crashed"} => stop_flag[k]

\* C9: when the constructor fails on a missing or unreadable image,
\* start_clicker is left by the exception with App.worker as it was, no
\* thread object made or started and nothing captured, clicked or pressed.
C9_LoadFailureStartsNothing ==
    [][\A t \in Threads :
         /\ (In(t, "start_clicker", "ctor") /\ thr'[t].pc = "exc_load") =>
              UNCHANGED << appVars, nctor, workerVars >>
         /\ (thr[t].pc = "exc_load" /\ thr'[t] # thr[t]) =>
              /\ thr'[t] = Idle
              /\ UNCHANGED << appVars, nctor, workerVars >>]_vars

\* C9, a case: the constructor has failed in a start_clicker called after an
\* earlier worker ended.
C9_LoadFailedAfterSession ==
    \E t \in Threads :
        /\ In(t, "start_clicker", "exc_load")
        /\ worker # 0
        /\ ~is_alive(worker)

\* on_update calls of worker k begun so far: the completed ones and the one
\* under way.
Invoked(k) == cbs[k] + (IF At(k, "cb") THEN 1 ELSE 0)

\* C10: for every worker and normal template, click_counts[name] is the
\* number of clicks issued for the template and never decreases; on_update
\* has been called once per click, and each label it sets gets the value
\* click_counts holds at that click.
C10_CountsAreClicks ==
    [][\A k \in Workers :
         /\ \A n \in Names :
              /\ click_counts'[k][n] = nclicks'[k][n]
              /\ click_counts'[k][n] >= click_counts[k][n]
         /\ Invoked(k)' = Sum(nclicks'[k], NTemplates)
         /\ (At(k, "cb") /\ cbi'[k] = cbi[k] + 1) =>
              /\ click_counts'[k] = click_counts[k]
              /\ count_vars'[TEMPLATES[cbi'[k]]] = click_counts[k][TEMPLATES[cbi'[k]]]]_vars

\* C10, a case: a click has been counted and its on_update call is complete.
C10_ClickReported ==
    \E k \in Workers : \E n \in Names :
        click_counts[k][n] > 0 /\ cbs[k] = Sum(click_counts[k], NTemplates)

\* region_from_percent has returned.
RegionLoaded == step \notin {"off", "load"}

\* C11: for every zone with 0 <= x1 < x2 <= 1 and 0 <= y1 < y2 <= 1 and every
\* screen size, the region (x, y, w, h) that region_from_percent returns has
\* w > 0 and h > 0 and lies inside the screen.
C11_RegionPositiveOnScreen ==
    (RegionLoaded /\ ValidZone(zone)) =>
        /\ region_abs[3] > 0
        /\ region_abs[4] > 0
        /\ OnScreen(region_abs)

\* C12: a zone that violates 0 <= x1 < x2 <= 1 or 0 <= y1 < y2 <= 1 makes the
\* load fail: no region comes out of region_from_percent, and no capture is
\* attempted with a width or height that is not positive.
C12_InvalidZoneFailsAtLoad ==
    /\ (step # "off" /\ ~ValidZone(zone)) => ~RegionLoaded
    /\ step \in {"match", "click", "sleep", "raised_capture", "raised_match"} =>
           (region_abs[3] > 0 /\ region_abs[4] > 0)

\* The scenario of C13: a 50 x 50 reference, a captured region of 1000 x 1000,
\* the best match exact (score 1.0) at (100, 100), and the tick at its end.
ExactMatchTick ==
    /\ step = "sleep"
    /\ image = << 50, 50 >>
    /\ screenshot = << 1000, 1000 >>
    /\ minmax = [val |-> 100, loc |-> << 100, 100 >>]

\* C13, as the code has it: in that scenario the counter of the template is 1
\* after the tick and the click is issued at the origin of the captured region
\* plus the place of the match plus half the reference: origin + (125, 125).
C13_ClickAtCentreOfMatch ==
    ExactMatchTick =>
        /\ count = 1
        /\ clicked = << region_abs[1] + 100 + 25, region_abs[2] + 100 + 25 >>

\* C13, as stated: in that scenario the counter is 1 and the click is issued
\* at the origin of the captured region plus (25, 25).
C13_ClickAtOriginPlus25 ==
    ExactMatchTick =>
        /\ count = 1
        /\ clicked = << region_abs[1] + 25, region_abs[2] + 25 >>

\* C13, a case: the scenario has run, on the region that the zone
\* (0.1, 0.1, 0.6, 0.6) gives on a screen of 2000 x 2000.
C13_ExactMatchClicked ==
    /\ ExactMatchTick
    /\ region_abs = << 200, 200, 1000, 1000 >>
    /\ clicked # << >>

\* C14: match_template called with a template wider or taller than the
\* captured image ends in an error: it returns neither a place nor None.
C14_LargerTemplateRaises ==
    ( /\ step \in {"click", "sleep", "raised_match"}
      /\ image[1] > screenshot[1] \/ image[2] > screenshot[2] )
    => step = "raised_match"

\* C15: every tick begins with the capture of the automenu; the reward is
\* captured second and only when the automenu did not match; a normal template
\* is touched only after both were captured and neither matched; keys are
\* pressed only for the one interrupt that matched.
C15_InterruptOrder ==
    \A k \in Workers :
        /\ (is_alive(k) /\ wpc[k] \notin {"top", "automenu"}) => Len(tick[k]) >= 1
        /\ \A i \in 1..Len(tick[k]) :
             LET e == tick[k][i] IN
             /\ i = 1 => e = Ev("capture", AUTOMENU_TEMPLATE)
             /\ e.a = AUTOMENU_TEMPLATE => i <= 2
             /\ e = Ev("capture", REWARD_TEMPLATE) =>
                    i = 2 /\ ~Matched(k, AUTOMENU_TEMPLATE)
             /\ e.a \in Names =>
                    /\ i >= 3
                    /\ tick[k][2] = Ev("capture", REWARD_TEMPLATE)
                    /\ ~Matched(k, REWARD_TEMPLATE)
             /\ e.op = "press" =>
                    \/ /\ Matched(k, AUTOMENU_TEMPLATE)
                       /\ ~Matched(k, REWARD_TEMPLATE)
                       /\ e = IF i = 3 THEN Ev("press", "esc") ELSE Ev("press", "enter")
                    \/ /\ Matched(k, REWARD_TEMPLATE)
                       /\ ~Matched(k, AUTOMENU_TEMPLATE)
                       /\ i = 4 /\ e = Ev("press", "enter")

\* C15, a case: the automenu was captured and did not match, then the reward
\* was captured, matched and answered.
C15_RewardAfterAutomenuMiss ==
    \E k \in Workers : is_alive(k) /\ tick[k] = RewardTick

\* The events of the normal templates in the tick of worker k.
NormalPart(k) == SubSeq(tick[k], 3, Len(tick[k]))

\* The captures in s are of the templates after the p-th, each once, in list
\* order with none left out, and every match is followed by its click.
RECURSIVE InListOrder(_, _)
InListOrder(s, p) ==
    IF s = << >> THEN TRUE
    ELSE LET e == Head(s) IN
         /\ e.op = "capture"
         /\ p < NTemplates
         /\ e.a = TEMPLATES[p + 1]
         /\ IF Len(s) >= 2 /\ s[2].op # "capture"
            THEN /\ Len(s) >= 3
                 /\ s[2] = Ev("match", e.a)
                 /\ s[3] = Ev("click", e.a)
                 /\ InListOrder(SubSeq(s, 4, Len(s)), p + 1)
            ELSE InListOrder(Tail(s), p + 1)

\* Captures of normal templates in s.
RECURSIVE Captured(_)
Captured(s) ==
    IF s = << >> THEN 0
    ELSE (IF Head(s).op = "capture" THEN 1 ELSE 0) + Captured(Tail(s))

C17_StopReturns ==
    \A t \in Threads :
        (InStop(t) /\ thr[t].pc = "stop") ~> (thr[t].pc \in {"idle", "reset"})

\* C18: no AutoClicker is constructed, and so no template record written,
\* while a worker is alive.
C18_NoLoadWhileWorkerAlive ==
    [][\A t \in Threads :
         (In(t, "start_clicker", "ctor") /\ thr'[t].pc = "start") =>
             \A k \in Workers : ~is_alive(k)]_vars

\* C19: a tick ends in one sleep(self.delay) on every path: the loop test is
\* reached again only from that sleep, from the sleep only the loop test
\* follows, and a tick begins only from the loop test.
C19_SleepClosesEveryTick ==
    [][\A k \in Workers :
         (is_alive(k) /\ is_alive(k)') =>
           /\ (wpc[k] # "top" /\ wpc'[k] = "top") => wpc[k] = "sleep"
           /\ (wpc[k] = "sleep" /\ wpc'[k] # "sleep") => wpc'[k] = "top"
           /\ (wpc[k] # "sleep" /\ wpc'[k] = "sleep") =>
                \/ wpc[k] = "esc"
                \/ wpc[k] = "reward" /\ Matched(k, REWARD_TEMPLATE)'
                \/ wpc[k] \in {"scan", "cb"} /\ idx[k] = NTemplates
           /\ (wpc[k] # "automenu" /\ wpc'[k] = "automenu") =>
                wpc[k] = "top" /\ ~stop_flag[k]]_vars

\* C19, a case: a tick with an automenu hit is in its closing sleep.
C19_AutomenuTickAsleep ==
    \E k \in Workers : At(k, "sleep") /\ tick[k] = AutomenuTick

\* C20: while the worker of the session runs and no on_update call is under
\* way, every displayed count is the click_counts entry of that worker.
C20_DisplayIsClickCounts ==
    (WorkerAlive /\ \A k \in Workers : ~At(k, "cb")) =>
        \A n \in Names : count_vars[n] = click_counts[worker][n]

====
